---- MODULE Spec2Model ----
(***************************************************************************)
(* The trading dashboard of src/app.py: the dispatcher run_all_trades (one *)
(* manual trading round over all agents, an asyncio.gather under           *)
(* asyncio.run inside one try/except) and the polled refresh handlers      *)
(* Trader.get_logs and TraderView.refresh.                                 *)
(***************************************************************************)
EXTENDS Naturals, Integers, Sequences, FiniteSets, TLC

\* Most traders create_traders() returns in one round.
MaxAgents == 3
\* Most clicks of the "Run Trades Now" button in one behaviour.
MaxRounds == 2

Agents == 1..MaxAgents

\* Messages str(e) of the exceptions the collaborators raise.
Errors == {"e1", "e2"}

VARIABLES
    pc,            \* position of the click chain / run_all_trades
    market,        \* the world: is the market open during this invocation
    oracle,        \* what is_market_open() answered in this invocation
    fault,         \* the setup step that raised in this invocation, and str(e)
    ret,           \* what run_all_trades returned (or that it raised)
    trade_status,  \* value of the gr.HTML status component
    processors,    \* number of registered trace processors (process-wide)
    traders,       \* number of traders create_traders() returned
    task,          \* state of each agent's asyncio task
    exc,           \* exception each failed task raised
    outer,         \* the future asyncio.gather returned
    rounds,        \* clicks so far
    openInv,       \* invocations so far that found the market open
    regFailed,     \* invocations so far whose add_trace_processor call raised
    recording,     \* whether rounds are recorded in prev
    prev,          \* per-agent results and status of the previous round
    db,            \* the log store read_log reads
    log,           \* value of the gr.HTML log component
    pollRet,       \* what the last get_logs call returned (or that it raised)
    store,         \* the account Account.get would return now
    account,       \* Trader.account
    view,          \* values of the four components refresh writes
    refreshRet,    \* how the last refresh call ended
    lastRead,      \* the entries the last successful read_log returned
    lastPrev,      \* the previous value the last get_logs call was given
    fetchFailed    \* the collaborator whose fetch raised in the last poll

dvars == <<pc, market, oracle, fault, ret, trade_status, processors, traders,
           task, exc, outer, rounds, openInv, regFailed, recording, prev>>
pvars == <<db, log, pollRet, store, account, view, refreshRet, lastRead,
           lastPrev, fetchFailed>>
vars == <<dvars, pvars>>

----------------------------------------------------------------------------
\* Status strings of run_all_trades and start_trading, as <<kind, message>>.

NoStatus == <<"None", "">>
TradingStatus == <<"Trading", "">>
ClosedStatus == <<"Closed", "">>
CompletedStatus == <<"Completed", "">>
ErrorStatus(m) == <<"Error", m>>
\* The exception left run_all_trades: nothing was returned.
Raised(m) == <<"Raised", m>>

NoFault == <<"none", "">>

\* States of the future of asyncio.gather.
NoGather == <<"none", "">>
Pending == <<"pending", "">>
Result == <<"result", "">>
Exception(m) == <<"exception", m>>

InFlight == {"scheduled", "suspended"}
Finished == {"done", "failed"}

NoTasks == [a \in Agents |-> "none"]
NoExc == [a \in Agents |-> ""]

\* Per-agent result of the round: "ok", the error raised, "cancelled", "none".
Results ==
    [a \in Agents |->
        CASE task[a] = "done" -> "ok"
          [] task[a] = "failed" -> exc[a]
          [] task[a] = "cancelled" -> "cancelled"
          [] OTHER -> "none"]

NoPrev == <<[a \in Agents |-> "none"], NoStatus>>

----------------------------------------------------------------------------
\* run_all_trades

\* `if not is_market_open(): return ...`
MarketBlocksNever(o) == FALSE
MarketBlocks(o) == o = "closed"

\* add_trace_processor(LogTracer()): one more processor in the global list.
RegisterOnce(p) == IF p = 0 THEN 1 ELSE p
Register(p) == p + 1

\* asyncio.gather(*[trader.run() for trader in traders]): every coroutine is
\* wrapped in a task and scheduled before run_trading suspends on the await.
Launch(n) == [a \in Agents |-> IF a <= n THEN "scheduled" ELSE "none"]

\* The event loop steps any task that is scheduled or whose external call
\* returned, whatever the other tasks are doing.
RunnableInTurn(a) == task[a] \in InFlight /\ \A b \in 1..(a - 1) : task[b] \notin InFlight
Runnable(a) == task[a] \in InFlight

\* gather's _done_callback, return_exceptions=False: the first exception is
\* set on the outer future at once; the result only when every task finished.
OuterAfterFail(e) == IF outer = Pending THEN Exception(e) ELSE outer
OuterAfterDone(a) ==
    IF outer = Pending /\ \A b \in 1..traders : b # a => task[b] = "done"
    THEN Result ELSE outer

\* asyncio.run's shutdown (_cancel_all_tasks): tasks still pending when
\* run_trading ended are cancelled and awaited.
CancelRemaining == [a \in Agents |-> IF task[a] \in InFlight THEN "cancelled" ELSE task[a]]

\* `return "... completed for all agents"` / `except Exception as e: return ...`
Outcome(o) == IF o = Result THEN CompletedStatus ELSE ErrorStatus(o[2])

\* trade_button.click(fn=start_trading).then(fn=run_all_trades)
Click ==
    /\ pc = "idle"
    /\ rounds < MaxRounds
    /\ rounds' = rounds + 1
    /\ \E m \in {"open", "closed"} : market' = m
    /\ trade_status' = TradingStatus
    /\ pc' = "load"
    /\ ret' = NoStatus
    /\ oracle' = "none"
    /\ fault' = NoFault
    /\ traders' = 0
    /\ task' = NoTasks
    /\ exc' = NoExc
    /\ outer' = NoGather
    /\ prev' = IF recording /\ outer # NoGather THEN <<Results, ret>> ELSE prev
    /\ UNCHANGED <<processors, openInv, regFailed, recording, pvars>>

\* The imports at the head of run_all_trades, before its try.
LoadCollaborators ==
    /\ pc = "load"
    /\ \/ /\ pc' = "check"
          /\ UNCHANGED <<ret, fault>>
       \/ \E e \in Errors :
            /\ fault' = <<"load", e>>
            /\ ret' = Raised(e)
            /\ pc' = "idle"
    /\ UNCHANGED <<market, oracle, trade_status, processors, traders, task, exc,
                   outer, rounds, openInv, regFailed, recording, prev, pvars>>

\* The market-hours check.
CheckMarket ==
    /\ pc = "check"
    /\ \/ /\ oracle' = market
          /\ IF MarketBlocks(market)
             THEN /\ ret' = ClosedStatus
                  /\ trade_status' = ClosedStatus
                  /\ pc' = "idle"
                  /\ UNCHANGED openInv
             ELSE /\ pc' = "trace"
                  /\ openInv' = openInv + 1
                  /\ UNCHANGED <<ret, trade_status>>
          /\ UNCHANGED fault
       \/ \E e \in Errors :
            /\ oracle' = "raised"
            /\ fault' = <<"check", e>>
            /\ ret' = ErrorStatus(e)
            /\ trade_status' = ErrorStatus(e)
            /\ pc' = "idle"
            /\ UNCHANGED openInv
    /\ UNCHANGED <<market, processors, traders, task, exc, outer, rounds,
                   regFailed, recording, prev, pvars>>

\* add_trace_processor(LogTracer())
AddTraceProcessor ==
    /\ pc = "trace"
    /\ \/ /\ processors' = Register(processors)
          /\ pc' = "create"
          /\ UNCHANGED <<ret, trade_status, fault, regFailed>>
       \/ \E e \in Errors :
            /\ fault' = <<"trace", e>>
            /\ regFailed' = regFailed + 1
            /\ ret' = ErrorStatus(e)
            /\ trade_status' = ErrorStatus(e)
            /\ pc' = "idle"
            /\ UNCHANGED processors
    /\ UNCHANGED <<market, oracle, traders, task, exc, outer, rounds, openInv,
                   recording, prev, pvars>>

\* traders = create_traders()
CreateTraders ==
    /\ pc = "create"
    /\ \/ \E n \in 0..MaxAgents :
            /\ traders' = n
            /\ pc' = "gather"
            /\ UNCHANGED <<ret, trade_status, fault>>
       \/ \E e \in Errors :
            /\ fault' = <<"create", e>>
            /\ ret' = ErrorStatus(e)
            /\ trade_status' = ErrorStatus(e)
            /\ pc' = "idle"
            /\ UNCHANGED traders
    /\ UNCHANGED <<market, oracle, processors, task, exc, outer, rounds, openInv,
                   regFailed, recording, prev, pvars>>

\* asyncio.run(run_trading()) up to the await of the gather.
Gather ==
    /\ pc = "gather"
    /\ task' = Launch(traders)
    /\ outer' = IF traders = 0 THEN Result ELSE Pending
    /\ pc' = "await"
    /\ UNCHANGED <<market, oracle, fault, ret, trade_status, processors, traders,
                   exc, rounds, openInv, regFailed, recording, prev, pvars>>

\* trader.run() runs up to an external call and suspends there.
RunSuspends(a) ==
    /\ pc = "await"
    /\ Runnable(a)
    /\ task[a] = "scheduled"
    /\ task' = [task EXCEPT ![a] = "suspended"]
    /\ UNCHANGED <<pc, market, oracle, fault, ret, trade_status, processors,
                   traders, exc, outer, rounds, openInv, regFailed, recording,
                   prev, pvars>>

\* trader.run() returns.
RunReturns(a) ==
    /\ pc = "await"
    /\ Runnable(a)
    /\ task' = [task EXCEPT ![a] = "done"]
    /\ outer' = OuterAfterDone(a)
    /\ UNCHANGED <<pc, market, oracle, fault, ret, trade_status, processors,
                   traders, exc, rounds, openInv, regFailed, recording, prev,
                   pvars>>

\* trader.run() raises.
RunRaises(a) ==
    /\ pc = "await"
    /\ Runnable(a)
    /\ \E e \in Errors :
         /\ task' = [task EXCEPT ![a] = "failed"]
         /\ exc' = [exc EXCEPT ![a] = e]
         /\ outer' = OuterAfterFail(e)
    /\ UNCHANGED <<pc, market, oracle, fault, ret, trade_status, processors,
                   traders, rounds, openInv, regFailed, recording, prev, pvars>>

\* The gather's future is done: run_trading resumes and ends, asyncio.run
\* shuts the loop down, run_all_trades returns its status.
Finish ==
    /\ pc = "await"
    /\ outer # Pending
    /\ task' = CancelRemaining
    /\ ret' = Outcome(outer)
    /\ trade_status' = Outcome(outer)
    /\ pc' = "idle"
    /\ UNCHANGED <<market, oracle, fault, processors, traders, exc, outer, rounds,
                   openInv, regFailed, recording, prev, pvars>>

DInit ==
    /\ pc = "idle"
    /\ market = "closed"
    /\ oracle = "none"
    /\ fault = NoFault
    /\ ret = NoStatus
    /\ trade_status = NoStatus
    /\ processors = 0
    /\ traders = 0
    /\ task = NoTasks
    /\ exc = NoExc
    /\ outer = NoGather
    /\ rounds = 0
    /\ openInv = 0
    /\ regFailed = 0
    /\ prev = NoPrev

----------------------------------------------------------------------------
\* The polled handlers: Trader.get_logs and TraderView.refresh

\* Most entries in the log store.
MaxLog == 2
\* read_log(self.name, last_n=13)
LogTail == 13

\* Log entries <<timestamp, type, message>>; "custom" is a type mapper lacks.
LogEntries == {<<"t1", "trace", "m">>, <<"t2", "account", "m">>, <<"t3", "custom", "m">>}

\* Absent previous value (previous=None) and the gr.update() no-change value.
None == "None"
NoUpdate == "gr.update()"
RaisedPoll == "Raised"

\* mapper.get(type, Color.WHITE)
mapper(type) ==
    CASE type = "trace" -> "WHITE"
      [] type = "agent" -> "CYAN"
      [] type = "function" -> "GREEN"
      [] type = "generation" -> "YELLOW"
      [] type = "response" -> "MAGENTA"
      [] type = "account" -> "RED"
      [] OTHER -> "WHITE"

\* The N most recent entries of the store.
read_log(entries, last_n) ==
    IF Len(entries) <= last_n THEN entries
    ELSE SubSeq(entries, Len(entries) - last_n + 1, Len(entries))

\* One iteration of the loop of get_logs.
Span(entry) ==
    "<span style='color:" \o mapper(entry[2]) \o "'>" \o entry[1] \o " : ["
        \o entry[2] \o "] " \o entry[3] \o "</span><br/>"

RECURSIVE Spans(_)
Spans(logs) == IF logs = <<>> THEN "" ELSE Span(Head(logs)) \o Spans(Tail(logs))

RenderLogs(logs) == "<div style='height:250px; overflow-y:auto;'>" \o Spans(logs) \o "</div>"

\* Trader.get_logs once read_log returned logs.
get_logs_always(logs, previous) == RenderLogs(logs)
get_logs(logs, previous) ==
    LET response == RenderLogs(logs)
    IN  IF response # previous THEN response ELSE NoUpdate

\* What Gradio leaves in an output component after a handler returned r.
Shown(r, old) == IF r = NoUpdate THEN old ELSE r

\* Accounts of the store. An optional number is the empty set (None) or {n}.
Accounts ==
    { [value |-> {}, pnl |-> {}, holdings |-> <<>>, transactions |-> <<>>,
       series |-> <<>>],
      [value |-> {105}, pnl |-> {5}, holdings |-> <<<<"AAPL", 1>>>>,
       transactions |-> <<<<"t1", "AAPL", 1, 100, "r">>>>,
       series |-> <<<<"t1", 105>>>>],
      [value |-> {95}, pnl |-> {0 - 5}, holdings |-> <<>>,
       transactions |-> <<<<"t1", "AAPL", 1, 100, "r">>, <<"t2", "AAPL", 0 - 1, 95, "r">>>>,
       series |-> <<<<"t1", 105>>, <<"t2", 95>>>>] }

NewAccount == CHOOSE a \in Accounts : a.value = {}

\* `x or 0.0`
OrZero(x) == IF x = {} \/ x = {0} THEN 0 ELSE CHOOSE v \in x : TRUE

\* Trader.get_portfolio_value
get_portfolio_value(acc) ==
    LET portfolio_value == OrZero(acc.value)
        pnl == OrZero(acc.pnl)
    IN  [color |-> IF pnl >= 0 THEN "green" ELSE "red",
         emoji |-> IF pnl >= 0 THEN "up" ELSE "down",
         value |-> portfolio_value,
         pnl |-> pnl]

\* Trader.get_portfolio_value_chart: the line over the (datetime, value) frame.
get_portfolio_value_chart(acc) ==
    [x |-> [i \in 1..Len(acc.series) |-> acc.series[i][1]],
     y |-> [i \in 1..Len(acc.series) |-> acc.series[i][2]]]

\* Trader.get_holdings_df
get_holdings_df(acc) ==
    [columns |-> <<"Symbol", "Quantity">>,
     rows |-> [i \in 1..Len(acc.holdings) |->
                  [Symbol |-> acc.holdings[i][1], Quantity |-> acc.holdings[i][2]]]]

\* Trader.get_transactions_df
get_transactions_df(acc) ==
    IF acc.transactions = <<>>
    THEN [columns |-> <<"Timestamp", "Symbol", "Quantity", "Price", "Rationale">>,
          rows |-> <<>>]
    ELSE [columns |-> <<0, 1, 2, 3, 4>>, rows |-> acc.transactions]

\* The tuple TraderView.refresh returns.
refresh(acc) ==
    <<get_portfolio_value(acc), get_portfolio_value_chart(acc),
      get_holdings_df(acc), get_transactions_df(acc)>>

\* The logging collaborator writes an entry.
WriteLog ==
    /\ Len(db) < MaxLog
    /\ \E e \in LogEntries : db' = Append(db, e)
    /\ UNCHANGED <<log, pollRet, store, account, view, refreshRet, lastRead,
                   lastPrev, fetchFailed, dvars>>

\* A trade changes the stored account.
AccountChanges ==
    /\ \E a \in Accounts \ {store} : store' = a
    /\ UNCHANGED <<db, log, pollRet, account, view, refreshRet, lastRead,
                   lastPrev, fetchFailed, dvars>>

\* log_timer.tick(fn=self.trader.get_logs, inputs=[self.log], outputs=[self.log])
LogTick ==
    /\ lastPrev' = log
    /\ \/ /\ lastRead' = read_log(db, LogTail)
          /\ pollRet' = get_logs(read_log(db, LogTail), log)
          /\ log' = Shown(get_logs(read_log(db, LogTail), log), log)
          /\ fetchFailed' = "none"
       \/ /\ fetchFailed' = "log"
          /\ pollRet' = RaisedPoll
          /\ UNCHANGED <<log, lastRead>>
    /\ UNCHANGED <<db, store, account, view, refreshRet, dvars>>

\* timer.tick(fn=self.refresh, outputs=[portfolio_value, chart, holdings, transactions])
RefreshTick ==
    /\ \/ /\ account' = store
          /\ view' = refresh(store)
          /\ refreshRet' = "Returned"
          /\ fetchFailed' = "none"
       \/ /\ fetchFailed' = "account"
          /\ refreshRet' = RaisedPoll
          /\ \/ UNCHANGED account
             \/ account' = store
          /\ UNCHANGED view
    /\ UNCHANGED <<db, log, pollRet, store, lastRead, lastPrev, dvars>>

PInit ==
    /\ db = <<>>
    /\ log = None
    /\ pollRet = None
    /\ store = NewAccount
    /\ account = NewAccount
    /\ view = <<>>
    /\ refreshRet = None
    /\ lastRead = <<>>
    /\ lastPrev = None
    /\ fetchFailed = "none"

Init == DInit /\ PInit /\ recording = FALSE

Next ==
    \/ Click
    \/ LoadCollaborators
    \/ CheckMarket
    \/ AddTraceProcessor
    \/ CreateTraders
    \/ Gather
    \/ \E a \in Agents : RunSuspends(a)
    \/ \E a \in Agents : RunReturns(a)
    \/ \E a \in Agents : RunRaises(a)
    \/ Finish

Spec == Init /\ [][Next]_vars

PollNext ==
    \/ WriteLog
    \/ AccountChanges
    \/ LogTick
    \/ RefreshTick

PollSpec == Init /\ [][PollNext]_vars

\* The same program with every round recorded in prev.
OrderInit == DInit /\ PInit /\ recording = TRUE
OrderSpec == OrderInit /\ [][Next]_vars

----------------------------------------------------------------------------
\* Properties

\* Agents whose run raised in the round, with the error each raised.
Failures == {<<a, exc[a]>> : a \in {b \in 1..traders : task[b] = "failed"}}

\* A round was dispatched in this invocation and run_all_trades has returned.
RoundOver == pc = "idle" /\ outer # NoGather

\* r is the PartialFailure outcome with exactly the failure list f.
IsPartialFailure(r, f) == r[1] = "PartialFailure" /\ r[2] = f

\* The status r reports agent b as succeeded.
ReportsSucceeded(r, b) ==
    \/ r = CompletedStatus
    \/ r[1] = "PartialFailure" /\ \A f \in r[2] : f[1] # b

\* C1: when is_market_open() answers false, the invocation has ended with the
\* market-closed status, created no traders and launched no run.
C1_MarketClosed ==
    oracle = "closed" =>
        /\ pc = "idle"
        /\ ret = ClosedStatus
        /\ traders = 0
        /\ task = NoTasks
        /\ outer = NoGather

\* A market-closed answer in a later invocation, after a round that ran.
C1_Witness == oracle = "closed" /\ rounds >= 2 /\ processors >= 1

\* C2: a dispatched round ends AllSucceeded when no run failed, and
\* PartialFailure listing exactly the failed agents with their errors otherwise.
C2_Outcome ==
    RoundOver =>
        IF Failures = {} THEN ret = CompletedStatus
        ELSE IsPartialFailure(ret, Failures)

\* C3: when a run raised, every other launched run went to its own completion
\* and each one that succeeded is reported as succeeded.
C3_SiblingsComplete ==
    (RoundOver /\ \E a \in 1..traders : task[a] = "failed") =>
        \A b \in 1..traders :
            /\ task[b] \in Finished
            /\ task[b] = "done" => ReportsSucceeded(ret, b)

\* C6: the status of a dispatched round is decided only when every launched
\* run has finished or failed on its own.
C6_StatusAfterAllRuns ==
    (outer # NoGather /\ ret # NoStatus) =>
        \A a \in 1..traders : task[a] \in Finished

\* C7: two rounds with the same agents and the same per-agent results end with
\* the same status, whatever the order in which the runs ended.
C7_OrderIndependent ==
    (RoundOver /\ prev # NoPrev /\ prev[1] = Results) => prev[2] = ret

\* C8: a setup step raising with the market open launches nothing and is
\* returned as the error status carrying the message.
C8_SetupFailure ==
    (market = "open" /\ fault[1] \in {"load", "trace", "create"}) =>
        /\ pc = "idle"
        /\ ret = ErrorStatus(fault[2])
        /\ task = NoTasks

\* C9: while the dispatcher awaits, every agent's run has been launched, a
\* launched run can start and a suspended one can go on, whatever the others do.
C9_Concurrent ==
    pc = "await" =>
        \A a \in 1..traders :
            /\ task[a] # "none"
            /\ task[a] = "scheduled" => ENABLED RunSuspends(a)
            /\ task[a] \in InFlight => ENABLED RunReturns(a)

\* All the runs of a round of MaxAgents agents are suspended at once.
C9_Witness ==
    pc = "await" /\ traders = MaxAgents /\ \A a \in 1..traders : task[a] = "suspended"

\* C10 as stated: between invocations the number of registered trace
\* processors is the number of invocations that found the market open.
C10_Original == pc = "idle" => processors = openInv

\* C10 amended: the registered processors are the market-open invocations whose
\* registration did not raise; the one still to register is at "trace".
C10_Registered ==
    /\ processors + regFailed + (IF pc = "trace" THEN 1 ELSE 0) = openInv
    /\ (pc \in {"create", "gather", "await"} \/ traders > 0 \/ task # NoTasks)
           => processors >= 1

\* Two processors registered after two market-open invocations.
C10_Witness == pc = "idle" /\ processors = 2 /\ openInv = 2

\* C4: a get_logs call that returned gave no-change when the rendered log
\* equalled the previous value and the rendered log otherwise, and the log
\* component shows the rendering of the log read last.
C4_LogSlot ==
    /\ pollRet \notin {None, RaisedPoll} =>
           IF RenderLogs(lastRead) = lastPrev THEN pollRet = NoUpdate
           ELSE pollRet = RenderLogs(lastRead)
    /\ log # None => log = RenderLogs(lastRead)

\* A tick on an unchanged, non-empty log returned no-change.
C4_Witness == pollRet = NoUpdate /\ Len(lastRead) = 2 /\ lastPrev = log

\* C5: a poll whose fetch raised ends with the no-change signal.
C5_FetchFailureIsNoChange ==
    /\ fetchFailed = "log" => pollRet = NoUpdate
    /\ fetchFailed = "account" => refreshRet = NoUpdate

====
